---- MODULE Spec2Model ----
(***************************************************************************)
(* A model of pycoin's transaction-script virtual machine                  *)
(* (pycoin/tx/script/VM.py): eval_script, eval_instruction,                *)
(* post_script_check, check_stack_size, get_opcodes, delete_subscript and  *)
(* the boolean codec, together with the collaborators VM.py imports        *)
(* (ScriptCodec, ConditionalStack, IntStreamer, the instruction table).    *)
(*                                                                         *)
(* Byte strings are sequences of integers in 0..255.  Offsets into a       *)
(* script (pc) are 0-based as in the code; script[pc + 1] is the byte at   *)
(* offset pc.  A raised ScriptError is modelled by its errno name.         *)
(***************************************************************************)
EXTENDS Integers, Sequences, FiniteSets, TLC

(***************************************************************************)
(* Class constants of VM.                                                  *)
(***************************************************************************)
MAX_SCRIPT_LENGTH == 10000
MAX_BLOB_LENGTH == 520
MAX_OP_COUNT == 201
MAX_STACK_SIZE == 1000

VERIFY_MINIMALDATA == "VERIFY_MINIMALDATA"

(***************************************************************************)
(* Opcode byte values (opcodes.OPCODE_LIST).                               *)
(***************************************************************************)
OP_0 == 0
OP_PUSHDATA1 == 76
OP_PUSHDATA2 == 77
OP_PUSHDATA4 == 78
OP_1NEGATE == 79
OP_1 == 81
OP_16 == 96
OP_NOP == 97
OP_IF == 99
OP_NOTIF == 100
OP_VERIF == 101
OP_ELSE == 103
OP_ENDIF == 104
OP_TOALTSTACK == 107
OP_FROMALTSTACK == 108
OP_DROP == 117
OP_DUP == 118

(***************************************************************************)
(* Bounds of the model.                                                    *)
(***************************************************************************)
MaxLen == 3        \* longest script enumerated over ScriptAlphabet
MaxBranch == 1     \* longest branch body of an enumerated IF/ELSE/ENDIF script
MaxDelLen == 4     \* longest script given to delete_subscript
MaxSubLen == 2     \* longest subscript given to delete_subscript
MaxCalls == 3      \* most eval_script calls made on one VM
MaxMagnitude == 33000  \* largest magnitude given to int_to_script_bytes
MaxBytes == 3      \* longest byte string given to bool_from_script_bytes
MaxPushLen == 6    \* longest script enumerated over PushAlphabet
MaxOpsLen == 4     \* longest script given to get_opcodes

(***************************************************************************)
(* Helpers on byte strings.                                                *)
(***************************************************************************)
Rep(b, n) == [i \in 1..n |-> b]

\* Python's s[a:b] for 0 <= a; clipped at the end of s.
Slice(s, a, b) ==
    LET hi == IF b < Len(s) THEN b ELSE Len(s)
    IN  IF a >= hi THEN <<>> ELSE SubSeq(s, a + 1, hi)

RECURSIVE SeqsUpTo(_, _)
SeqsUpTo(S, n) ==
    IF n = 0 THEN {<<>>}
    ELSE LET prev == SeqsUpTo(S, n - 1)
         IN  prev \cup {Append(s, x) : s \in {t \in prev : Len(t) = n - 1}, x \in S}

RECURSIVE from_bytes(_)
\* intbytes.from_bytes(b, byteorder="little")
from_bytes(b) ==
    IF Len(b) = 0 THEN 0 ELSE b[1] + 256 * from_bytes(Tail(b))

(***************************************************************************)
(* IntStreamer: the sign-magnitude little-endian integer codec.            *)
(***************************************************************************)
RECURSIVE MagBytes(_)
MagBytes(n) == IF n = 0 THEN <<>> ELSE <<n % 256>> \o MagBytes(n \div 256)

\* mutant: no byte appended when the magnitude fills the sign bit
int_to_script_bytes_no_pad(v) ==
    IF v = 0 THEN <<>>
    ELSE LET mag == IF v < 0 THEN -v ELSE v
             ba  == MagBytes(mag)
             n   == Len(ba)
         IN  IF v < 0 /\ ba[n] < 128 THEN [ba EXCEPT ![n] = ba[n] + 128] ELSE ba

int_to_script_bytes(v) ==
    IF v = 0 THEN <<>>
    ELSE LET mag == IF v < 0 THEN -v ELSE v
             ba  == MagBytes(mag)
             ext == IF ba[Len(ba)] >= 128 THEN Append(ba, 0) ELSE ba
             n   == Len(ext)
         IN  IF v < 0 THEN [ext EXCEPT ![n] = ext[n] + 128] ELSE ext

\* [err, v]: the decoded integer, or the error raised in minimal mode.
int_from_script_bytes(b, require_minimal) ==
    IF Len(b) = 0 THEN [err |-> "none", v |-> 0]
    ELSE LET n    == Len(b)
             neg  == b[n] >= 128
             top  == IF neg THEN b[n] - 128 ELSE b[n]
             mag  == from_bytes([b EXCEPT ![n] = top])
             v    == IF neg THEN -mag ELSE mag
         IN  IF require_minimal /\ int_to_script_bytes(v) # b
             THEN [err |-> "UNKNOWN_ERROR", v |-> 0]
             ELSE [err |-> "none", v |-> v]

VM_FALSE == int_to_script_bytes(0)
VM_TRUE == int_to_script_bytes(1)

\* mutant: the `v not in (0, 1)` check left out
bool_from_script_bytes_any(b, require_minimal) ==
    LET r == int_from_script_bytes(b, require_minimal)
    IN  IF r.err # "none" THEN [err |-> r.err, v |-> FALSE]
        ELSE [err |-> "none", v |-> (r.v # 0)]

\* [err, v]: VM.bool_from_script_bytes
bool_from_script_bytes(b, require_minimal) ==
    LET r == int_from_script_bytes(b, require_minimal)
    IN  IF r.err # "none" THEN [err |-> r.err, v |-> FALSE]
        ELSE IF require_minimal /\ r.v \notin {0, 1}
             THEN [err |-> "UNKNOWN_ERROR", v |-> FALSE]
             ELSE [err |-> "none", v |-> (r.v # 0)]

bool_to_script_bytes(v) == IF v THEN VM_TRUE ELSE VM_FALSE

(***************************************************************************)
(* ScriptCodec.get_opcode and the tables it is built from.                 *)
(***************************************************************************)
\* OPCODE_CONST_LIST: OP_0..OP_16 and OP_1NEGATE push a fixed value.
IsConstOpcode(opcode) == opcode = OP_0 \/ opcode \in OP_1..OP_16 \/ opcode = OP_1NEGATE

ConstData(opcode) ==
    IF opcode = OP_0 THEN int_to_script_bytes(0)
    ELSE IF opcode = OP_1NEGATE THEN int_to_script_bytes(-1)
    ELSE int_to_script_bytes(opcode - OP_1 + 1)

\* OPCODE_SIZED_LIST: OP_PUSH_1..OP_PUSH_75, the opcode is the length.
IsSizedOpcode(opcode) == opcode \in 1..75

\* OPCODE_VARIABLE_LIST: the width of the length field.
IsVariableOpcode(opcode) == opcode \in {OP_PUSHDATA1, OP_PUSHDATA2, OP_PUSHDATA4}

dec_length(opcode) ==
    IF opcode = OP_PUSHDATA1 THEN 1 ELSE IF opcode = OP_PUSHDATA2 THEN 2 ELSE 4

RECURSIVE from_bytes_big(_)
from_bytes_big(b) ==
    IF Len(b) = 0 THEN 0 ELSE b[Len(b)] + 256 * from_bytes_big(SubSeq(b, 1, Len(b) - 1))

\* mutant: the length field read with byteorder="big"
decode_OP_PUSHDATA_big(w, script, pc) ==
    LET size_blob == Slice(script, pc + 1, pc + 1 + w)
    IN  IF Len(size_blob) < w
        THEN [err |-> "BAD_OPCODE", size |-> 0, pc |-> pc + 1]
        ELSE [err |-> "none", size |-> from_bytes_big(size_blob), pc |-> pc + 1 + w]

\* make_variable_decoder(dec_length): [err, size, pc]
decode_OP_PUSHDATA(w, script, pc) ==
    LET size_blob == Slice(script, pc + 1, pc + 1 + w)
    IN  IF Len(size_blob) < w
        THEN [err |-> "BAD_OPCODE", size |-> 0, pc |-> pc + 1]
        ELSE [err |-> "none", size |-> from_bytes(size_blob), pc |-> pc + 1 + w]

\* ScriptCodec.compile_push: the opcode of the most compact push of data.
MinimalPushOpcode(data) ==
    IF Len(data) = 0 THEN OP_0
    ELSE IF Len(data) = 1 /\ data[1] \in 1..16 THEN OP_1 + data[1] - 1
    ELSE IF data = <<129>> THEN OP_1NEGATE
    ELSE IF Len(data) <= 75 THEN Len(data)
    ELSE IF Len(data) <= 255 THEN OP_PUSHDATA1
    ELSE IF Len(data) <= 65535 THEN OP_PUSHDATA2
    ELSE OP_PUSHDATA4

Record(opcode, has_data, data, new_pc) ==
    [err |-> "none", opcode |-> opcode, has_data |-> has_data, data |-> data, pc |-> new_pc]

DecodeError(opcode, e) ==
    [err |-> e, opcode |-> opcode, has_data |-> FALSE, data |-> <<>>, pc |-> 0]

\* The data of a push of `size` bytes starting at offset `at`.
ReadPush(script, opcode, size, at, verify_minimal_data) ==
    IF Len(script) < at + size THEN DecodeError(opcode, "BAD_OPCODE")
    ELSE LET data == Slice(script, at, at + size)
         IN  IF verify_minimal_data /\ MinimalPushOpcode(data) # opcode
             THEN DecodeError(opcode, "MINIMALDATA")
             ELSE Record(opcode, TRUE, data, at + size)

\* [err, opcode, has_data, data, pc]: has_data = FALSE is the code's data = None.
get_opcode(script, pc, verify_minimal_data) ==
    LET opcode == script[pc + 1]
    IN  IF IsConstOpcode(opcode) THEN Record(opcode, TRUE, ConstData(opcode), pc + 1)
        ELSE IF IsSizedOpcode(opcode)
             THEN ReadPush(script, opcode, opcode, pc + 1, verify_minimal_data)
        ELSE IF IsVariableOpcode(opcode)
             THEN LET d == decode_OP_PUSHDATA(dec_length(opcode), script, pc)
                  IN  IF d.err # "none" THEN DecodeError(opcode, d.err)
                      ELSE ReadPush(script, opcode, d.size, d.pc, verify_minimal_data)
        ELSE Record(opcode, FALSE, <<>>, pc + 1)

(***************************************************************************)
(* ConditionalStack: one boolean per open IF/NOTIF.                        *)
(***************************************************************************)
all_if_true(cs) == \A i \in 1..Len(cs) : cs[i]

open_branch(cs, truth) == Append(cs, truth)

\* OP_ELSE: [err, cs]
flip_top(cs) ==
    IF Len(cs) = 0 THEN [err |-> "UNBALANCED_CONDITIONAL", cs |-> cs]
    ELSE [err |-> "none", cs |-> [cs EXCEPT ![Len(cs)] = ~cs[Len(cs)]]]

\* OP_ENDIF: [err, cs]
close_branch(cs) ==
    IF Len(cs) = 0 THEN [err |-> "UNBALANCED_CONDITIONAL", cs |-> cs]
    ELSE [err |-> "none", cs |-> SubSeq(cs, 1, Len(cs) - 1)]

\* the errno raised at the end of the script, or "none"
check_final_state(cs) ==
    IF Len(cs) # 0 THEN "UNBALANCED_CONDITIONAL" ELSE "none"

(***************************************************************************)
(* The instruction table (make_instruction_lookup) and the handlers the    *)
(* model runs.  A handler takes and returns the part of the VM it may      *)
(* change: [err, stack, altstack, conditional_stack].                      *)
(***************************************************************************)
INSTRUCTION_LOOKUP(opcode) ==
    IF IsConstOpcode(opcode) \/ IsSizedOpcode(opcode) \/ IsVariableOpcode(opcode)
    THEN "push"
    ELSE IF opcode = OP_NOP THEN "nop"
    ELSE IF opcode = OP_IF THEN "if"
    ELSE IF opcode = OP_NOTIF THEN "notif"
    ELSE IF opcode = OP_VERIF THEN "verif"
    ELSE IF opcode = OP_ELSE THEN "else"
    ELSE IF opcode = OP_ENDIF THEN "endif"
    ELSE IF opcode = OP_TOALTSTACK THEN "toaltstack"
    ELSE IF opcode = OP_FROMALTSTACK THEN "fromaltstack"
    ELSE IF opcode = OP_DROP THEN "drop"
    ELSE IF opcode = OP_DUP THEN "dup"
    ELSE "bad"

\* getattr(f, "outside_conditional", False)
outside_conditional(f) == f \in {"if", "notif", "else", "endif", "verif"}

Ok(st) == [err |-> "none", stack |-> st.stack, altstack |-> st.altstack,
           conditional_stack |-> st.conditional_stack]

Raise(st, e) == [Ok(st) EXCEPT !.err = e]

Pop(s) == SubSeq(s, 1, Len(s) - 1)
Top(s) == s[Len(s)]

\* OP_IF (reverse = FALSE) and OP_NOTIF (reverse = TRUE)
do_OP_IF(st, reverse) ==
    IF all_if_true(st.conditional_stack)
    THEN IF Len(st.stack) < 1 THEN Raise(st, "UNBALANCED_CONDITIONAL")
         ELSE LET b == bool_from_script_bytes(Top(st.stack), FALSE)
                  popped == [st EXCEPT !.stack = Pop(st.stack)]
              IN  IF b.err # "none" THEN Raise(popped, b.err)
                  ELSE Ok([popped EXCEPT !.conditional_stack =
                              open_branch(st.conditional_stack, IF reverse THEN ~b.v ELSE b.v)])
    ELSE Ok([st EXCEPT !.conditional_stack = open_branch(st.conditional_stack, FALSE)])

do_OP_ELSE(st) ==
    LET r == flip_top(st.conditional_stack)
    IN  IF r.err # "none" THEN Raise(st, r.err)
        ELSE Ok([st EXCEPT !.conditional_stack = r.cs])

do_OP_ENDIF(st) ==
    LET r == close_branch(st.conditional_stack)
    IN  IF r.err # "none" THEN Raise(st, r.err)
        ELSE Ok([st EXCEPT !.conditional_stack = r.cs])

do_OP_TOALTSTACK(st) ==
    IF Len(st.stack) < 1 THEN Raise(st, "INVALID_STACK_OPERATION")
    ELSE Ok([st EXCEPT !.stack = Pop(st.stack),
                       !.altstack = Append(st.altstack, Top(st.stack))])

do_OP_FROMALTSTACK(st) ==
    IF Len(st.altstack) < 1 THEN Raise(st, "INVALID_ALTSTACK_OPERATION")
    ELSE Ok([st EXCEPT !.altstack = Pop(st.altstack),
                       !.stack = Append(st.stack, Top(st.altstack))])

do_OP_DROP(st) ==
    IF Len(st.stack) < 1 THEN Raise(st, "INVALID_STACK_OPERATION")
    ELSE Ok([st EXCEPT !.stack = Pop(st.stack)])

do_OP_DUP(st) ==
    IF Len(st.stack) < 1 THEN Raise(st, "INVALID_STACK_OPERATION")
    ELSE Ok([st EXCEPT !.stack = Append(st.stack, Top(st.stack))])

\* f(self)
Invoke(f, st) ==
    CASE f = "push" -> Ok(st)
      [] f = "nop" -> Ok(st)
      [] f = "traced" -> Ok(st)
      [] f = "if" -> do_OP_IF(st, FALSE)
      [] f = "notif" -> do_OP_IF(st, TRUE)
      [] f = "else" -> do_OP_ELSE(st)
      [] f = "endif" -> do_OP_ENDIF(st)
      [] f = "toaltstack" -> do_OP_TOALTSTACK(st)
      [] f = "fromaltstack" -> do_OP_FROMALTSTACK(st)
      [] f = "drop" -> do_OP_DROP(st)
      [] f = "dup" -> do_OP_DUP(st)
      [] OTHER -> Raise(st, "BAD_OPCODE")

\* vm_context.traceback_f: "none" (no hook), "keep" (a hook that returns None)
\* or "replace" (a hook that returns a handler of its own for OP_NOP and None
\* for every other opcode).
Hooks == {"none", "keep", "replace"}

\* f = self.traceback_f(opcode, data, pc, self) or f
traceback(hook, opcode, f) == IF hook = "replace" /\ opcode = OP_NOP THEN "traced" ELSE f

(***************************************************************************)
(* The state: one VM object and the eval_script call made on it.           *)
(***************************************************************************)
VARIABLES
    status,             \* "idle", "running", "returned" or "failed"
    error,              \* errno of the ScriptError raised, or "none"
    args,               \* arguments of the eval_script call
    pc,                 \* self.pc
    stack,              \* self.stack
    script,             \* self.script
    altstack,           \* self.altstack
    conditional_stack,  \* self.conditional_stack
    op_count,           \* self.op_count
    begin_code_hash,    \* self.begin_code_hash
    flags,              \* self.flags
    traceback_f,        \* self.traceback_f
    last,               \* history: what the last step did
    executed,           \* history: start offsets of the steps whose handler was invoked
    nodata_steps,       \* history: completed steps whose record carried no data
    steps,              \* history: iterations of the loop made by the current call
    runs,               \* history: arguments and outcome of the earlier calls
    ds_status,          \* delete_subscript: "idle", "returned" or "failed"
    ds_script,          \* delete_subscript: argument script
    ds_subscript,       \* delete_subscript: argument subscript
    ds_result,          \* delete_subscript: returned bytes
    ds_again_status,    \* delete_subscript on its own result: "idle", "returned", "failed"
    ds_again_result,    \* delete_subscript on its own result: returned bytes
    cd_status,          \* integer codec: "idle", "encoded" or "done"
    cd_fn,              \* integer codec: "int" (encode, then decode) or "bool" (decode)
    cd_v,               \* integer codec: the integer given to int_to_script_bytes
    cd_b,               \* integer codec: the bytes encoded, or given to bool_from_script_bytes
    cd_minimal,         \* integer codec: require_minimal
    cd_int,             \* integer codec: [err, v] of int_from_script_bytes
    cd_bool,            \* integer codec: [err, v] of bool_from_script_bytes
    go_status,          \* get_opcodes: "idle", "once" or "twice"
    go_script,          \* get_opcodes: argument script
    go_minimal,         \* get_opcodes: argument verify_minimal_data
    go_pc,              \* get_opcodes: argument pc of each call made, in order
    go_first,           \* get_opcodes: [err, recs] the first generator gave
    go_second           \* get_opcodes: [err, recs] the second generator gave

vm_vars == <<pc, stack, script, altstack, conditional_stack, op_count,
             begin_code_hash, flags, traceback_f>>
hist_vars == <<last, executed, nodata_steps, steps, runs>>
ds_vars == <<ds_status, ds_script, ds_subscript, ds_result, ds_again_status,
             ds_again_result>>
cd_vars == <<cd_status, cd_fn, cd_v, cd_b, cd_minimal, cd_int, cd_bool>>
go_vars == <<go_status, go_script, go_minimal, go_pc, go_first, go_second>>
lib_vars == <<ds_vars, cd_vars, go_vars>>
vars == <<status, error, args, vm_vars, hist_vars, lib_vars>>

(***************************************************************************)
(* Inputs of eval_script.                                                  *)
(***************************************************************************)
ScriptAlphabet == {OP_0, 1, OP_1, OP_PUSHDATA1, OP_NOP, OP_IF, OP_ELSE, OP_ENDIF}
ShortScripts == SeqsUpTo(ScriptAlphabet, MaxLen)

\* OP_IF A OP_ELSE B OP_ENDIF C behind a push of the condition.
BranchOps == {OP_NOP, OP_1, OP_DUP}
Bodies == SeqsUpTo(BranchOps, MaxBranch)
CondPushes == {<<OP_0>>, <<OP_1>>, <<OP_1NEGATE>>, <<1, 128>>}
IfElseScript(c, A, B, C) == c \o <<OP_IF>> \o A \o <<OP_ELSE>> \o B \o <<OP_ENDIF>> \o C
IfElseScripts == {IfElseScript(c, A, B, C) : c \in CondPushes, A \in Bodies, B \in Bodies, C \in Bodies}

\* OP_PUSHDATA2 with a 16-bit little-endian length n, followed by n bytes.
PushData2(n) == <<OP_PUSHDATA2, n % 256, n \div 256>> \o Rep(0, n)
Inactive(body) == <<OP_0, OP_IF>> \o body \o <<OP_ENDIF>>

\* Scripts at the resource ceilings.
LimitScripts ==
    {Rep(OP_NOP, MAX_SCRIPT_LENGTH), Rep(OP_NOP, MAX_SCRIPT_LENGTH + 1),
     Rep(OP_NOP, MAX_OP_COUNT), Rep(OP_NOP, MAX_OP_COUNT + 1),
     <<OP_0>> \o Rep(OP_NOP, MAX_OP_COUNT) \o <<OP_1>>,
     Inactive(Rep(OP_NOP, MAX_OP_COUNT - 2)), Inactive(Rep(OP_NOP, MAX_OP_COUNT - 1)),
     Rep(OP_1, MAX_STACK_SIZE), Rep(OP_1, MAX_STACK_SIZE + 1), Rep(OP_1, MAX_STACK_SIZE + 2),
     <<OP_1>> \o Rep(OP_DUP, MAX_STACK_SIZE) \o <<OP_NOP>>,
     <<OP_1, OP_TOALTSTACK>> \o Rep(OP_1, MAX_STACK_SIZE) \o <<OP_NOP>>,
     <<OP_1, OP_TOALTSTACK>> \o Rep(OP_1, MAX_STACK_SIZE),
     <<OP_1, OP_TOALTSTACK>> \o Rep(OP_1, MAX_STACK_SIZE - 1) \o <<OP_FROMALTSTACK, OP_DROP>>,
     <<OP_1, OP_NOTIF, OP_VERIF, OP_ENDIF>>, <<OP_0, OP_NOTIF, OP_1, OP_ENDIF>>,
     <<OP_1, OP_PUSHDATA4, 1, 0, 0, 0, 7>>,
     <<OP_1>> \o Rep(OP_NOP, MAX_OP_COUNT) \o <<OP_DUP>>,
     Rep(OP_NOP, MAX_OP_COUNT) \o <<OP_DUP>>,
     Rep(OP_NOP, MAX_OP_COUNT) \o <<OP_ENDIF>>,
     Inactive(Rep(OP_NOP, MAX_OP_COUNT))}
BlobScripts ==
    {PushData2(MAX_BLOB_LENGTH), PushData2(MAX_BLOB_LENGTH + 1),
     Inactive(PushData2(MAX_BLOB_LENGTH)), Inactive(PushData2(MAX_BLOB_LENGTH + 1))}

\* Scripts of length-prefixed pushes, whole and truncated.
PushAlphabet == {OP_PUSHDATA1, OP_PUSHDATA2, OP_PUSHDATA4, 0, 2}
PushScripts ==
    SeqsUpTo(PushAlphabet, MaxPushLen)
    \cup {<<OP_PUSHDATA1, 5, 1, 1, 1>>, <<OP_PUSHDATA1, 5, 1, 1, 1, 1, 1>>,
          <<OP_PUSHDATA4, 2, 0, 0, 0, 7>>, <<OP_PUSHDATA4, 2, 0, 0, 0, 7, 7>>}

FlagSets == {{}, {VERIFY_MINIMALDATA}}
InitialStacks == {<<>>, <<VM_TRUE>>, <<VM_FALSE>>}

Input(s, fl, h, st) == [script |-> s, flags |-> fl, traceback_f |-> h, initial_stack |-> st]

\* the inputs of eval_script, by family of script
InputFamilies == {"short", "ifelse", "limit", "blob", "push"}
Inputs(family) ==
    CASE family = "short" ->
             {Input(s, fl, h, st) : s \in ShortScripts, fl \in FlagSets, h \in Hooks,
                                    st \in InitialStacks}
      [] family = "ifelse" ->
             {Input(s, fl, h, <<>>) : s \in IfElseScripts, fl \in FlagSets, h \in Hooks}
      [] family = "limit" ->
             {Input(s, {}, "none", <<>>) : s \in LimitScripts}
      [] family = "push" ->
             {Input(s, fl, "none", <<>>) : s \in PushScripts, fl \in FlagSets}
      [] OTHER ->
             {Input(s, fl, h, <<>>) : s \in BlobScripts, fl \in FlagSets, h \in Hooks}

NoArgs == Input(<<>>, {}, "none", <<>>)

\* what `last` records about a step of eval_instruction
NoStep ==
    [kind |-> "none", start_pc |-> 0, all_if_true |-> TRUE, verify_minimal_data |-> FALSE,
     decoded |-> FALSE, opcode |-> 0, has_data |-> FALSE, data |-> <<>>,
     size_at_check |-> -1, hook_called |-> FALSE, f |-> "none",
     pushed |-> FALSE, invoked |-> FALSE, advanced |-> FALSE,
     len_at_invoke |-> -1, top_at_invoke |-> <<>>]

(***************************************************************************)
(* Init: a VM on which eval_script was never called; its run state is not  *)
(* set (-1 and empty values stand for the missing attributes).             *)
(***************************************************************************)
DsIdle ==
    /\ ds_status = "idle"
    /\ ds_script = <<>>
    /\ ds_subscript = <<>>
    /\ ds_result = <<>>
    /\ ds_again_status = "idle"
    /\ ds_again_result = <<>>

NoInt == [err |-> "none", v |-> 0]
NoBool == [err |-> "none", v |-> FALSE]
NoRecs == [err |-> "none", recs |-> <<>>]

CdIdle ==
    /\ cd_status = "idle"
    /\ cd_fn = "int"
    /\ cd_v = 0
    /\ cd_b = <<>>
    /\ cd_minimal = FALSE
    /\ cd_int = NoInt
    /\ cd_bool = NoBool

GoIdle ==
    /\ go_status = "idle"
    /\ go_script = <<>>
    /\ go_minimal = FALSE
    /\ go_pc = <<>>
    /\ go_first = NoRecs
    /\ go_second = NoRecs

VmFresh ==
    /\ status = "idle"
    /\ error = "none"
    /\ args = NoArgs
    /\ pc = -1
    /\ stack = <<>>
    /\ script = <<>>
    /\ altstack = <<>>
    /\ conditional_stack = <<>>
    /\ op_count = -1
    /\ begin_code_hash = -1
    /\ flags = {}
    /\ traceback_f = "none"
    /\ last = NoStep
    /\ executed = {}
    /\ nodata_steps = 0
    /\ steps = 0
    /\ runs = <<>>

Init == VmFresh /\ DsIdle /\ CdIdle /\ GoIdle

(***************************************************************************)
(* The decisions of eval_script and eval_instruction, one per line of      *)
(* the code that takes them.                                               *)
(***************************************************************************)
\* mutant: the length check made with >= in place of >
script_too_long_ge(s) == Len(s) >= MAX_SCRIPT_LENGTH

\* if len(script) > self.MAX_SCRIPT_LENGTH
script_too_long(s) == Len(s) > MAX_SCRIPT_LENGTH

\* self.stack = initial_stack or self.Stack()
initial_or_new(initial_stack) == IF Len(initial_stack) = 0 THEN <<>> ELSE initial_stack

\* mutant: the alternate stack of the earlier call kept
new_altstack_kept(old) == old

\* self.altstack = self.Stack()
new_altstack(old) == <<>>

\* mutant: the conditional stack of the earlier call kept
new_conditional_stack_kept(old) == old

\* self.conditional_stack = self.ConditionalStack()
new_conditional_stack(old) == <<>>

\* mutant: minimal-push verification requested whatever the branch state
verify_minimal_flag_only(fl, ait) == VERIFY_MINIMALDATA \in fl

\* verify_minimal_data = self.flags & VERIFY_MINIMALDATA and all_if_true
verify_minimal(fl, ait) == VERIFY_MINIMALDATA \in fl /\ ait

\* mutant: the blob check made with >= in place of >
push_too_large_ge(rec) == rec.has_data /\ Len(rec.data) >= MAX_BLOB_LENGTH

\* if data and len(data) > self.MAX_BLOB_LENGTH
push_too_large(rec) == rec.has_data /\ Len(rec.data) # 0 /\ Len(rec.data) > MAX_BLOB_LENGTH

\* mutant: `if not data` in place of `if data is None`, which counts OP_0
count_op_falsy(rec, oc) == IF ~rec.has_data \/ Len(rec.data) = 0 THEN oc + 1 ELSE oc

\* if data is None: self.op_count += 1
count_op(rec, oc) == IF ~rec.has_data THEN oc + 1 ELSE oc

\* mutant: the ceiling applied to the main stack alone
check_stack_size_main_only(st, alt) ==
    IF Len(st) > MAX_STACK_SIZE THEN "STACK_SIZE" ELSE "none"

\* check_stack_size: the errno raised, or "none"
check_stack_size(st, alt) ==
    IF Len(st) + Len(alt) > MAX_STACK_SIZE THEN "STACK_SIZE" ELSE "none"

\* mutant: the data pushed whatever the branch state
pushes_data_always(rec, ait) == rec.has_data

\* if data is not None and all_if_true: self.stack.append(data)
pushes_data(rec, ait) == rec.has_data /\ ait

\* mutant: the outside_conditional mark ignored
should_invoke_active_only(ait, f) == ait

\* mutant: the handler invoked whatever the branch state
should_invoke_always(ait, f) == TRUE

\* if all_if_true or getattr(f, "outside_conditional", False)
should_invoke(ait, f) == ait \/ outside_conditional(f)

\* if self.op_count > self.MAX_OP_COUNT
too_many_ops(oc) == oc > MAX_OP_COUNT

\* mutant: the op-count ceiling looked at before the handler's error
step_error_count_first(handler_err, oc) ==
    IF too_many_ops(oc) THEN "OP_COUNT" ELSE handler_err

\* the errno a step raises from the dispatch on: the handler's (line 102),
\* and only when the handler returned, OP_COUNT (lines 106-107)
step_error(handler_err, oc) ==
    IF handler_err # "none" THEN handler_err
    ELSE IF too_many_ops(oc) THEN "OP_COUNT" ELSE "none"

\* mutant: pc left where the step found it
advance_stay(pc_, rec) == pc_

\* self.pc = pc, the offset get_opcode returned
advance(pc_, rec) == rec.pc

\* mutant: post_script_check without the conditional stack's check
post_script_error_size_only(cs, st, alt) == check_stack_size(st, alt)

\* post_script_check: the errno raised, or "none"
post_script_error(cs, st, alt) ==
    IF check_final_state(cs) # "none" THEN check_final_state(cs)
    ELSE check_stack_size(st, alt)

(***************************************************************************)
(* eval_script, up to the loop: the length check and the assignments.      *)
(***************************************************************************)
\* the outcome of a finished call: the returned stack or the errno raised
Outcome ==
    [status |-> status, error |-> error,
     stack |-> IF status = "returned" THEN stack ELSE <<>>]

\* the body of eval_script(inp) up to the loop
Begin(inp) ==
    /\ args' = inp
    /\ last' = [NoStep EXCEPT !.kind = "call"]
    /\ executed' = {}
    /\ nodata_steps' = 0
    /\ steps' = 0
    /\ IF script_too_long(inp.script)
       THEN /\ status' = "failed"
            /\ error' = "SCRIPT_SIZE"
            /\ UNCHANGED vm_vars
       ELSE /\ status' = "running"
            /\ error' = "none"
            /\ pc' = 0
            /\ stack' = initial_or_new(inp.initial_stack)
            /\ script' = inp.script
            /\ altstack' = new_altstack(altstack)
            /\ conditional_stack' = new_conditional_stack(conditional_stack)
            /\ op_count' = 0
            /\ begin_code_hash' = 0
            /\ flags' = inp.flags
            /\ traceback_f' = inp.traceback_f

\* the first call made on a VM
eval_script ==
    /\ status = "idle"
    /\ \E family \in InputFamilies : \E inp \in Inputs(family) : Begin(inp)
    /\ UNCHANGED <<runs, lib_vars>>

(***************************************************************************)
(* eval_instruction: one iteration of `while self.pc < len(self.script)`.  *)
(* A raise leaves the assignments made before it in place.                 *)
(***************************************************************************)
StepResult(status_, error_, pc_, stack_, altstack_, cs_, oc_, last_) ==
    /\ status' = status_
    /\ error' = error_
    /\ pc' = pc_
    /\ stack' = stack_
    /\ altstack' = altstack_
    /\ conditional_stack' = cs_
    /\ op_count' = oc_
    /\ last' = last_
    /\ executed' = IF last_.invoked THEN executed \cup {last_.start_pc} ELSE executed
    /\ nodata_steps' = IF status_ = "running" /\ ~last_.has_data
                       THEN nodata_steps + 1 ELSE nodata_steps
    /\ steps' = steps + 1
    /\ UNCHANGED <<args, script, begin_code_hash, flags, traceback_f, runs, lib_vars>>

eval_instruction ==
    /\ status = "running"
    /\ pc < Len(script)
    /\ LET ait == all_if_true(conditional_stack)
           vmd == verify_minimal(flags, ait)
           rec == get_opcode(script, pc, vmd)
           l0  == [NoStep EXCEPT !.kind = "step", !.start_pc = pc, !.all_if_true = ait,
                                 !.verify_minimal_data = vmd, !.opcode = rec.opcode]
           l1  == [l0 EXCEPT !.decoded = TRUE, !.has_data = rec.has_data, !.data = rec.data]
           oc1 == count_op(rec, op_count)
           l2  == [l1 EXCEPT !.size_at_check = Len(stack) + Len(altstack)]
           f   == traceback(traceback_f, rec.opcode, INSTRUCTION_LOOKUP(rec.opcode))
           st1 == IF pushes_data(rec, ait) THEN Append(stack, rec.data) ELSE stack
           l3  == [l2 EXCEPT !.hook_called = (traceback_f # "none"), !.f = f,
                             !.pushed = pushes_data(rec, ait),
                             !.invoked = should_invoke(ait, f),
                             !.len_at_invoke =
                                 IF should_invoke(ait, f) THEN Len(st1) ELSE -1,
                             !.top_at_invoke =
                                 IF should_invoke(ait, f) /\ Len(st1) > 0
                                 THEN st1[Len(st1)] ELSE <<>>]
           before == [stack |-> st1, altstack |-> altstack,
                      conditional_stack |-> conditional_stack]
           res == IF should_invoke(ait, f) THEN Invoke(f, before) ELSE Ok(before)
       IN  IF rec.err # "none"
           THEN StepResult("failed", rec.err, pc, stack, altstack, conditional_stack,
                           op_count, l0)
           ELSE IF push_too_large(rec)
           THEN StepResult("failed", "PUSH_SIZE", pc, stack, altstack, conditional_stack,
                           op_count, l1)
           ELSE IF check_stack_size(stack, altstack) # "none"
           THEN StepResult("failed", check_stack_size(stack, altstack), pc, stack, altstack,
                           conditional_stack, oc1, l2)
           ELSE IF res.err # "none"
           THEN StepResult("failed", step_error(res.err, oc1), pc, res.stack, res.altstack,
                           res.conditional_stack, oc1, l3)
           ELSE IF step_error(res.err, oc1) # "none"
           THEN StepResult("failed", step_error(res.err, oc1), advance(pc, rec), res.stack, res.altstack,
                           res.conditional_stack, oc1, [l3 EXCEPT !.advanced = TRUE])
           ELSE StepResult("running", "none", advance(pc, rec), res.stack, res.altstack,
                           res.conditional_stack, oc1, [l3 EXCEPT !.advanced = TRUE])

(***************************************************************************)
(* The end of eval_script: post_script_check and `return self.stack`.      *)
(***************************************************************************)
post_script_check ==
    /\ status = "running"
    /\ ~(pc < Len(script))
    /\ LET e == post_script_error(conditional_stack, stack, altstack)
       IN  /\ status' = IF e = "none" THEN "returned" ELSE "failed"
           /\ error' = e
    /\ last' = [NoStep EXCEPT !.kind = "post"]
    /\ UNCHANGED <<args, vm_vars, executed, nodata_steps, steps, runs, lib_vars>>

Next ==
    \/ eval_script
    \/ eval_instruction
    \/ post_script_check

Spec == Init /\ [][Next]_vars

(***************************************************************************)
(* A specification that calls eval_script again and again on one VM, a     *)
(* call being made once the one before it has returned or raised.          *)
(***************************************************************************)
CallScripts ==
    {<<OP_1, OP_IF>>, <<OP_ENDIF>>, <<OP_1, OP_TOALTSTACK>>,
     <<OP_FROMALTSTACK>>, <<2, 7, 7, OP_NOP, OP_DUP, OP_DROP>>,
     <<OP_0, OP_IF, OP_1, OP_ENDIF>>,
     <<OP_1, OP_1, OP_TOALTSTACK, OP_1, OP_IF, OP_PUSHDATA1, 2, 7>>,
     Rep(OP_NOP, MAX_SCRIPT_LENGTH + 1)}
CallInputs ==
    {Input(s, {}, "none", <<>>) : s \in CallScripts}
    \cup {Input(s, {}, "none", <<VM_TRUE>>) : s \in {<<OP_ENDIF>>}}

\* what a finished call leaves in the VM's attributes
Left ==
    [pc |-> pc, op_count |-> op_count, stack |-> stack, altstack |-> altstack,
     conditional_stack |-> conditional_stack]

call_eval_script ==
    /\ status # "running"
    /\ Len(runs) < MaxCalls - 1
    /\ runs' = IF status = "idle" THEN runs
               ELSE Append(runs, [args |-> args, outcome |-> Outcome, left |-> Left])
    /\ \E inp \in CallInputs : Begin(inp)
    /\ UNCHANGED lib_vars

NextCalls ==
    \/ call_eval_script
    \/ eval_instruction
    \/ post_script_check

SpecCalls == Init /\ [][NextCalls]_vars

\* eval_script runs its loop and its final check to the end once called: the
\* interpreter is single-threaded and nothing suspends it. The caller is free
\* never to call again.
SpecCallsFair ==
    SpecCalls /\ WF_vars(eval_instruction) /\ WF_vars(post_script_check)

TypeOK ==
    /\ status \in {"idle", "running", "returned", "failed"}
    /\ pc \in -1..(MAX_SCRIPT_LENGTH + 1)
    /\ op_count \in -1..(MAX_OP_COUNT + 1)

(***************************************************************************)
(* get_opcodes and delete_subscript.                                       *)
(***************************************************************************)
RECURSIVE opcodes_from(_, _, _)
\* [err, recs]: the records the generator yields from offset pc on, and the
\* error that ends it ("none" when it runs off the end of the script).
opcodes_from(s, verify_minimal_data, pc_) ==
    IF ~(pc_ < Len(s)) THEN [err |-> "none", recs |-> <<>>]
    ELSE LET rec == get_opcode(s, pc_, verify_minimal_data)
         IN  IF rec.err # "none" THEN [err |-> rec.err, recs |-> <<>>]
             ELSE LET rest == opcodes_from(s, verify_minimal_data, rec.pc)
                  IN  [err |-> rest.err,
                       recs |-> <<[opcode |-> rec.opcode, has_data |-> rec.has_data,
                                   data |-> rec.data, start_pc |-> pc_,
                                   end_pc |-> rec.pc]>> \o rest.recs]

\* mutant: the generator starts at the pc it is passed
get_opcodes_from_pc(s, verify_minimal_data, pc_) == opcodes_from(s, verify_minimal_data, pc_)

\* the generator's first statement is pc = 0, whatever pc is passed
get_opcodes(s, verify_minimal_data, pc_) == opcodes_from(s, verify_minimal_data, 0)

RECURSIVE Contains(_, _)
\* sub occurs in s as a contiguous slice
Contains(s, sub) ==
    IF Len(sub) > Len(s) THEN FALSE
    ELSE SubSeq(s, 1, Len(sub)) = sub \/ Contains(Tail(s), sub)

\* mutant: `subscript not in section` in place of `section != subscript`
keep_section_substring(section, subscript) == ~Contains(section, subscript)

\* if section != subscript
keep_section(section, subscript) == section # subscript

RECURSIVE extend_kept_first_only(_, _, _, _)
\* mutant: the loop stops comparing after the first section it drops
extend_kept_first_only(s, subscript, recs, k) ==
    IF k > Len(recs) THEN <<>>
    ELSE LET section == Slice(s, recs[k].start_pc, recs[k].end_pc)
         IN  IF section = subscript THEN Slice(s, recs[k].end_pc, Len(s))
             ELSE section \o extend_kept_first_only(s, subscript, recs, k + 1)

RECURSIVE extend_kept(_, _, _, _)
\* new_script after the loop has consumed recs[k..]
extend_kept(s, subscript, recs, k) ==
    IF k > Len(recs) THEN <<>>
    ELSE LET section == Slice(s, recs[k].start_pc, recs[k].end_pc)
         IN  (IF keep_section(section, subscript) THEN section ELSE <<>>)
             \o extend_kept(s, subscript, recs, k + 1)

\* [err, result]
delete_subscript(s, subscript) ==
    LET g == get_opcodes(s, FALSE, 0)
    IN  IF g.err # "none" THEN [err |-> g.err, result |-> <<>>]
        ELSE [err |-> "none", result |-> extend_kept(s, subscript, g.recs, 1)]

(***************************************************************************)
(* A specification that applies delete_subscript to every script and       *)
(* subscript of the bounded sets.                                          *)
(***************************************************************************)
DelAlphabet == {1, 2, OP_NOP, OP_DUP}
DelScripts == SeqsUpTo(DelAlphabet, MaxDelLen)
DelSubscripts == SeqsUpTo(DelAlphabet, MaxSubLen)

InitDel ==
    /\ VmFresh
    /\ CdIdle
    /\ GoIdle
    /\ ds_status = "idle"
    /\ ds_script \in DelScripts
    /\ ds_subscript \in DelSubscripts
    /\ ds_result = <<>>
    /\ ds_again_status = "idle"
    /\ ds_again_result = <<>>

call_delete_subscript ==
    /\ ds_status = "idle"
    /\ LET r == delete_subscript(ds_script, ds_subscript)
       IN  /\ ds_status' = IF r.err = "none" THEN "returned" ELSE "failed"
           /\ ds_result' = r.result
    /\ UNCHANGED <<ds_script, ds_subscript, ds_again_status, ds_again_result, status,
                   error, args, vm_vars, hist_vars, cd_vars, go_vars>>

\* delete_subscript called on the script the first call returned
call_delete_subscript_again ==
    /\ ds_status = "returned"
    /\ ds_again_status = "idle"
    /\ LET r == delete_subscript(ds_result, ds_subscript)
       IN  /\ ds_again_status' = IF r.err = "none" THEN "returned" ELSE "failed"
           /\ ds_again_result' = r.result
    /\ UNCHANGED <<ds_status, ds_script, ds_subscript, ds_result, status, error, args,
                   vm_vars, hist_vars, cd_vars, go_vars>>

NextDel ==
    \/ call_delete_subscript
    \/ call_delete_subscript_again

SpecDel == InitDel /\ [][NextDel]_vars

(***************************************************************************)
(* A specification that runs the generator get_opcodes to its end twice on *)
(* every script of a bounded set, each time with a pc argument of its own. *)
(***************************************************************************)
OpsAlphabet == {OP_0, 1, 2, OP_PUSHDATA1, OP_NOP}
OpsScripts == SeqsUpTo(OpsAlphabet, MaxOpsLen)
OpsPcs == 0..MaxOpsLen

InitOps ==
    /\ VmFresh
    /\ DsIdle
    /\ CdIdle
    /\ go_status = "idle"
    /\ go_script \in OpsScripts
    /\ go_minimal \in BOOLEAN
    /\ go_pc = <<>>
    /\ go_first = NoRecs
    /\ go_second = NoRecs

call_get_opcodes ==
    /\ go_status = "idle"
    /\ \E pc_ \in OpsPcs :
        /\ go_pc' = Append(go_pc, pc_)
        /\ go_first' = get_opcodes(go_script, go_minimal, pc_)
    /\ go_status' = "once"
    /\ UNCHANGED <<go_script, go_minimal, go_second, status, error, args, vm_vars,
                   hist_vars, ds_vars, cd_vars>>

call_get_opcodes_again ==
    /\ go_status = "once"
    /\ \E pc_ \in OpsPcs :
        /\ go_pc' = Append(go_pc, pc_)
        /\ go_second' = get_opcodes(go_script, go_minimal, pc_)
    /\ go_status' = "twice"
    /\ UNCHANGED <<go_script, go_minimal, go_first, status, error, args, vm_vars,
                   hist_vars, ds_vars, cd_vars>>

NextOps ==
    \/ call_get_opcodes
    \/ call_get_opcodes_again

SpecOps == InitOps /\ [][NextOps]_vars

(***************************************************************************)
(* A specification that encodes and decodes every integer of a range, and  *)
(* decodes every byte string of a bounded set as a boolean.                *)
(***************************************************************************)
CodecInts == (-MaxMagnitude)..MaxMagnitude
CodecByteValues == {0, 1, 2, 127, 128, 129, 255}
CodecByteStrings == SeqsUpTo(CodecByteValues, MaxBytes)

InitCodec ==
    /\ VmFresh
    /\ DsIdle
    /\ GoIdle
    /\ cd_status = "idle"
    /\ cd_minimal \in BOOLEAN
    /\ cd_int = NoInt
    /\ cd_bool = NoBool
    /\ \/ cd_fn = "int" /\ cd_v \in CodecInts /\ cd_b = <<>>
       \/ cd_fn = "bool" /\ cd_v = 0 /\ cd_b \in CodecByteStrings

call_int_to_script_bytes ==
    /\ cd_fn = "int"
    /\ cd_status = "idle"
    /\ cd_b' = int_to_script_bytes(cd_v)
    /\ cd_status' = "encoded"
    /\ UNCHANGED <<cd_fn, cd_v, cd_minimal, cd_int, cd_bool, status, error, args,
                   vm_vars, hist_vars, ds_vars, go_vars>>

call_int_from_script_bytes ==
    /\ cd_fn = "int"
    /\ cd_status = "encoded"
    /\ cd_int' = int_from_script_bytes(cd_b, cd_minimal)
    /\ cd_status' = "done"
    /\ UNCHANGED <<cd_fn, cd_v, cd_b, cd_minimal, cd_bool, status, error, args,
                   vm_vars, hist_vars, ds_vars, go_vars>>

call_bool_from_script_bytes ==
    /\ cd_fn = "bool"
    /\ cd_status = "idle"
    /\ cd_bool' = bool_from_script_bytes(cd_b, cd_minimal)
    /\ cd_status' = "done"
    /\ UNCHANGED <<cd_fn, cd_v, cd_b, cd_minimal, cd_int, status, error, args,
                   vm_vars, hist_vars, ds_vars, go_vars>>

NextCodec ==
    \/ call_int_to_script_bytes
    \/ call_int_from_script_bytes
    \/ call_bool_from_script_bytes

SpecCodec == InitCodec /\ [][NextCodec]_vars

(***************************************************************************)
(* Properties.                                                             *)
(***************************************************************************)
RunStateUnset ==
    /\ pc = -1
    /\ op_count = -1
    /\ begin_code_hash = -1
    /\ stack = <<>>
    /\ altstack = <<>>
    /\ conditional_stack = <<>>
    /\ script = <<>>

Called == status # "idle"

\* a step of eval_instruction that got as far as the dispatch (line 101)
Dispatched(l) == l.kind = "step" /\ l.f # "none"

\* C1: eval_script on a script longer than MAX_SCRIPT_LENGTH fails with
\* SCRIPT_SIZE before anything is decoded, before any handler is invoked and
\* before any run state is assigned; a script of at most MAX_SCRIPT_LENGTH
\* bytes never fails with SCRIPT_SIZE and has its run state assigned.
C1_ScriptSizeCheckedFirst ==
    Called =>
        IF Len(args.script) > MAX_SCRIPT_LENGTH
        THEN /\ status = "failed"
             /\ error = "SCRIPT_SIZE"
             /\ RunStateUnset
             /\ last.kind = "call"
             /\ executed = {}
        ELSE /\ error # "SCRIPT_SIZE"
             /\ script = args.script
             /\ pc >= 0
             /\ op_count >= 0

C1_Witness ==
    /\ status = "failed"
    /\ error = "SCRIPT_SIZE"
    /\ Len(args.script) = MAX_SCRIPT_LENGTH + 1

\* a script of exactly MAX_SCRIPT_LENGTH bytes is run
C1_ExactLengthRuns ==
    /\ Len(script) = MAX_SCRIPT_LENGTH
    /\ status = "running"
    /\ pc > 0

\* C2: in every step that reaches the dispatch, the handler is invoked iff
\* the conditional stack was all-true at the start of the step or the handler
\* is marked outside_conditional; a handler that is not marked and sits in an
\* inactive branch is not invoked and leaves both stacks and the conditional
\* stack as they were.
C2_HandlerGating ==
    [][ (status = "running" /\ Dispatched(last')) =>
            /\ last'.invoked <=>
                   (all_if_true(conditional_stack) \/ outside_conditional(last'.f))
            /\ (~all_if_true(conditional_stack) /\ ~outside_conditional(last'.f)) =>
                   /\ ~last'.invoked
                   /\ last'.start_pc \notin executed'
                   /\ UNCHANGED <<stack, altstack, conditional_stack>>
            /\ (~all_if_true(conditional_stack) /\ last'.f \in {"if", "notif"}
                    /\ status' = "running") =>
                   Len(conditional_stack') = Len(conditional_stack) + 1
      ]_vars

C2_Witness ==
    /\ status = "running"
    /\ Dispatched(last)
    /\ ~last.all_if_true
    /\ last.f = "dup"
    /\ ~last.invoked

\* C3: eval_script returns only with an empty conditional stack and pc at the
\* end of the script; a run that reaches the end of the script with an IF or
\* NOTIF still open fails with UNBALANCED_CONDITIONAL.
C3_BalancedAtReturn ==
    /\ status = "returned" =>
           /\ conditional_stack = <<>>
           /\ pc = Len(script)
    /\ (last.kind = "post" /\ Len(conditional_stack) > 0) =>
           /\ status = "failed"
           /\ error = "UNBALANCED_CONDITIONAL"

C3_Witness ==
    /\ script = <<OP_IF>>
    /\ last.kind = "post"
    /\ status = "failed"
    /\ error = "UNBALANCED_CONDITIONAL"
    /\ Len(conditional_stack) = 1

\* The layout of a script OP_IF A OP_ELSE B OP_ENDIF C behind its condition
\* push; A, B and C hold one-byte opcodes and no control opcode.
PosOf(s, op) == CHOOSE i \in 1..Len(s) : s[i] = op
IfAt(s) == PosOf(s, OP_IF) - 1
ElseAt(s) == PosOf(s, OP_ELSE) - 1
EndifAt(s) == PosOf(s, OP_ENDIF) - 1
CondOf(s) == SubSeq(s, 1, IfAt(s))
\* the truth value of the bytes the condition push leaves on the stack
CondValue(c) == c \in {<<OP_1>>, <<OP_1NEGATE>>}

\* C4: in a run of c OP_IF A OP_ELSE B OP_ENDIF C with the table's own
\* handlers (no substituting hook), of the opcodes stepped over so far those
\* of A had their handler invoked iff c is true, those of B iff c is false,
\* and those of C always; OP_IF, OP_ELSE and OP_ENDIF themselves always ran.
C4_IfElseTogglesOnce ==
    (Called /\ traceback_f # "replace" /\ script \in IfElseScripts) =>
        LET c == CondValue(CondOf(script))
        IN  \A i \in 0..(pc - 1) :
                /\ (i > IfAt(script) /\ i < ElseAt(script)) => (i \in executed <=> c)
                /\ (i > ElseAt(script) /\ i < EndifAt(script)) => (i \in executed <=> ~c)
                /\ i > EndifAt(script) => i \in executed
                /\ i \in {IfAt(script), ElseAt(script), EndifAt(script)} => i \in executed

C4_Witness ==
    /\ status = "returned"
    /\ traceback_f = "none"
    /\ script = IfElseScript(<<OP_0>>, <<OP_NOP>>, <<OP_1>>, <<OP_NOP>>)
    /\ executed = {0, 1, 3, 4, 5, 6}
    /\ stack = <<VM_TRUE>>

\* C5: while the run goes on, op_count is the number of completed steps
\* whose record carried no data (pushes, OP_0 included, are not counted;
\* inactive branches are); a run returns only with op_count <= MAX_OP_COUNT,
\* and the step that takes op_count past MAX_OP_COUNT fails with OP_COUNT
\* unless it raised before.
C5_OpCount ==
    /\ status \in {"running", "returned"} =>
           /\ op_count = nodata_steps
           /\ op_count <= MAX_OP_COUNT
    /\ (status = "failed" /\ error = "OP_COUNT") =>
           /\ op_count = MAX_OP_COUNT + 1
           /\ op_count = nodata_steps + 1
    /\ (status = "failed" /\ last.kind = "step" /\ last.advanced) =>
           /\ error = "OP_COUNT"
           /\ op_count > MAX_OP_COUNT
    /\ (Dispatched(last) /\ last.has_data /\ last.data = <<>> /\ status = "running") =>
           op_count = nodata_steps

C5_Witness ==
    /\ status = "returned"
    /\ op_count = MAX_OP_COUNT
    /\ script = <<OP_0>> \o Rep(OP_NOP, MAX_OP_COUNT) \o <<OP_1>>
    /\ stack = <<VM_FALSE, VM_TRUE>>

\* 202 non-push opcodes fail
C5_OneTooMany ==
    /\ status = "failed"
    /\ error = "OP_COUNT"
    /\ script = Rep(OP_NOP, MAX_OP_COUNT + 1)

\* C6: a step reaches the dispatch only if len(stack) + len(altstack) was at
\* most MAX_STACK_SIZE at its check_stack_size; a step that comes to the check
\* with more fails with STACK_SIZE before the push, the hook and the handler;
\* a step fails with STACK_SIZE only then; eval_script returns only with
\* len(stack) + len(altstack) <= MAX_STACK_SIZE.
C6_SharedStackCeiling ==
    /\ Dispatched(last) =>
           /\ last.size_at_check >= 0
           /\ last.size_at_check <= MAX_STACK_SIZE
    /\ (last.kind = "step" /\ last.size_at_check > MAX_STACK_SIZE) =>
           /\ status = "failed"
           /\ error = "STACK_SIZE"
           /\ ~last.pushed
           /\ ~last.invoked
           /\ ~last.hook_called
    /\ (last.kind = "step" /\ error = "STACK_SIZE") =>
           last.size_at_check > MAX_STACK_SIZE
    /\ (last.kind = "post" /\ Len(stack) + Len(altstack) > MAX_STACK_SIZE) =>
           status = "failed"
    /\ status = "returned" => Len(stack) + Len(altstack) <= MAX_STACK_SIZE

C6_Witness ==
    /\ status = "failed"
    /\ error = "STACK_SIZE"
    /\ last.kind = "step"
    /\ Len(altstack) = 1
    /\ Len(stack) = MAX_STACK_SIZE

\* a full stack shared between the two stacks is returned
C6_FullStackReturned ==
    /\ status = "returned"
    /\ Len(stack) + Len(altstack) = MAX_STACK_SIZE

\* the record the step starting in this state decodes
Decoded == get_opcode(script, pc, verify_minimal(flags, all_if_true(conditional_stack)))
Stepping == status = "running" /\ pc < Len(script)

\* C7: a step whose decoded record has more than MAX_BLOB_LENGTH bytes of
\* data fails with PUSH_SIZE, in an active and in an inactive branch alike,
\* with pc, op_count, the stacks and the conditional stack unchanged and no
\* hook or handler called; a record of at most MAX_BLOB_LENGTH bytes never
\* fails with PUSH_SIZE.
C7_PushSize ==
    [][ (Stepping /\ Decoded.err = "none") =>
            IF Decoded.has_data /\ Len(Decoded.data) > MAX_BLOB_LENGTH
            THEN /\ status' = "failed"
                 /\ error' = "PUSH_SIZE"
                 /\ UNCHANGED <<pc, op_count, stack, altstack, conditional_stack, executed>>
                 /\ ~last'.hook_called
                 /\ ~last'.invoked
                 /\ ~last'.pushed
            ELSE error' # "PUSH_SIZE"
      ]_vars

C7_Witness ==
    /\ status = "failed"
    /\ error = "PUSH_SIZE"
    /\ ~last.all_if_true
    /\ Len(last.data) = MAX_BLOB_LENGTH + 1
    /\ traceback_f = "keep"
    /\ op_count = 1

\* a push of exactly MAX_BLOB_LENGTH bytes lands on the stack
C7_ExactBlobPushed ==
    /\ status = "returned"
    /\ Len(stack) = 1
    /\ Len(stack[1]) = MAX_BLOB_LENGTH

\* a record that is a push by another opcode than the most compact one
NonMinimal(rec) ==
    rec.err = "none" /\ rec.has_data /\ MinimalPushOpcode(rec.data) # rec.opcode

\* C8: a step fails with MINIMALDATA iff VERIFY_MINIMALDATA is set, the
\* conditional stack is all-true at the start of the step, and the push at pc
\* is not minimally encoded; in an inactive branch, or without the flag, a
\* non-minimal push never fails with MINIMALDATA.
C8_MinimalOnlyWhenActive ==
    [][ Stepping =>
            (error' = "MINIMALDATA" <=>
                /\ VERIFY_MINIMALDATA \in flags
                /\ all_if_true(conditional_stack)
                /\ NonMinimal(get_opcode(script, pc, FALSE)))
      ]_vars

C8_Witness ==
    /\ status = "running"
    /\ VERIFY_MINIMALDATA \in flags
    /\ last.kind = "step"
    /\ ~last.all_if_true
    /\ last.has_data
    /\ MinimalPushOpcode(last.data) # last.opcode
    /\ last.advanced

\* the same push in an active branch with the flag set fails
C8_ActiveFails ==
    /\ status = "failed"
    /\ error = "MINIMALDATA"
    /\ last.all_if_true
    /\ script = <<1, 1>>

(***************************************************************************)
(* Properties of delete_subscript.                                         *)
(***************************************************************************)
\* offsets at which an instruction of s starts, and the end of s
Boundaries(s) ==
    LET recs == get_opcodes(s, FALSE, 0).recs
    IN  {recs[k].start_pc : k \in 1..Len(recs)} \cup {Len(s)}

\* <<i, j>>: s[i:j] = sub, a non-empty slice of s
Occurrences(s, sub) ==
    {ij \in (0..Len(s)) \X (0..Len(s)) : ij[1] < ij[2] /\ Slice(s, ij[1], ij[2]) = sub}

\* the occurrences that start and end on opcode boundaries
AlignedOccurrences(s, sub) ==
    {ij \in Occurrences(s, sub) : ij[1] \in Boundaries(s) /\ ij[2] \in Boundaries(s)}

Without(s, ij) == Slice(s, 0, ij[1]) \o Slice(s, ij[2], Len(s))

\* C9: when subscript occurs in script as a slice that starts and ends on
\* opcode boundaries (taken here where there is exactly one such slice), the
\* result is script with that slice's byte range removed.
C9_AlignedSliceRemoved ==
    (ds_status = "returned" /\ Cardinality(AlignedOccurrences(ds_script, ds_subscript)) = 1) =>
        \A ij \in AlignedOccurrences(ds_script, ds_subscript) :
            ds_result = Without(ds_script, ij)

\* C10: when subscript has no occurrence in script that starts and ends on
\* opcode boundaries, whatever occurrences it has inside or across
\* instructions, delete_subscript returns script unchanged.
C10_UnalignedLeftAlone ==
    (ds_status = "returned" /\ AlignedOccurrences(ds_script, ds_subscript) = {}) =>
        ds_result = ds_script

C10_Witness ==
    /\ ds_status = "returned"
    /\ ds_script = <<2, OP_NOP, OP_DUP, OP_NOP>>
    /\ ds_subscript = <<OP_DUP, OP_NOP>>
    /\ Occurrences(ds_script, ds_subscript) = {<<2, 4>>}
    /\ AlignedOccurrences(ds_script, ds_subscript) = {}
    /\ ds_result = ds_script

(***************************************************************************)
(* Repeated calls on one VM.                                               *)
(***************************************************************************)
Finished == status \in {"returned", "failed"}

\* C11: a call that has finished has the outcome (the returned stack, or the
\* errno raised) of every earlier call on the same VM made with the same
\* script, flags, hook and initial stack contents, whatever calls were made
\* in between.
C11_Deterministic ==
    Finished =>
        \A i \in 1..Len(runs) : runs[i].args = args => runs[i].outcome = Outcome

\* the same input evaluated on the fresh VM and again after a call that
\* raised with a branch still open
C11_Witness ==
    /\ Finished
    /\ Len(runs) = 2
    /\ runs[1].args = args
    /\ args.script = <<OP_ENDIF>>
    /\ runs[2].outcome.status = "failed"
    /\ Len(runs[2].left.conditional_stack) > 0

\* C12: a call either raises SCRIPT_SIZE before it evaluates anything, or
\* enters the loop with pc = 0, op_count = 0, begin_code_hash = 0, empty
\* alternate and conditional stacks and the caller's initial items as the
\* main stack, whatever the earlier calls left behind.
C12_FreshRunState ==
    (last.kind = "call") =>
        \/ /\ status = "failed"
           /\ error = "SCRIPT_SIZE"
           /\ Len(args.script) > MAX_SCRIPT_LENGTH
        \/ /\ status = "running"
           /\ Len(args.script) <= MAX_SCRIPT_LENGTH
           /\ pc = 0
           /\ op_count = 0
           /\ begin_code_hash = 0
           /\ altstack = <<>>
           /\ conditional_stack = <<>>
           /\ stack = args.initial_stack
           /\ script = args.script
           /\ steps = 0

\* a call entered after one that raised part-way and left items on both
\* stacks, an open branch, a pc and an op count behind
C12_Witness ==
    /\ last.kind = "call"
    /\ status = "running"
    /\ Len(runs) > 0
    /\ LET prev == runs[Len(runs)]
       IN  /\ prev.outcome.status = "failed"
           /\ prev.outcome.error = "BAD_OPCODE"
           /\ prev.left.pc > 0
           /\ prev.left.op_count > 0
           /\ Len(prev.left.stack) > 0
           /\ Len(prev.left.altstack) > 0
           /\ Len(prev.left.conditional_stack) > 0
           /\ Len(args.initial_stack) > 0

(***************************************************************************)
(* Termination of the loop of eval_script.                                 *)
(***************************************************************************)
\* C13, of one step: an iteration that completes moves pc to the end offset of the record
\* it decoded, strictly past the offset it started at; pc never passes
\* len(script); the iterations made by a call never outnumber the bytes
\* consumed plus the one that raised, so never len(script) nor
\* MAX_SCRIPT_LENGTH; and a call that returns has pc = len(script).
C13_Step ==
    /\ (Stepping /\ last'.advanced) =>
         /\ pc' = get_opcode(script, pc, last'.verify_minimal_data).pc
         /\ pc' > pc
    /\ (Stepping /\ ~last'.advanced) => (pc' = pc /\ status' = "failed")
    /\ (status' = "running") => (steps' <= pc' /\ pc' <= Len(script'))
    /\ (status' = "failed" /\ error' # "SCRIPT_SIZE") =>
         (steps' <= pc' + 1 /\ pc' <= Len(script'))
    /\ (status' # "idle" /\ error' # "SCRIPT_SIZE") =>
         (steps' <= Len(script') /\ steps' <= MAX_SCRIPT_LENGTH)
    /\ (status' = "returned") => pc' = Len(script')

\* C13, with what C13_Step says of every step: a call that has entered the
\* loop returns or raises.
C13_Terminates ==
    /\ (status = "running") ~> Finished
    /\ [][C13_Step]_vars

\* a call that returned after several iterations, one of them over a push
\* that takes more than one byte
C13_Witness ==
    /\ status = "returned"
    /\ steps >= 4
    /\ steps < pc
    /\ pc = Len(script)

(***************************************************************************)
(* The integer and boolean codec.                                          *)
(***************************************************************************)
\* C14: for every integer v of the range, int_to_script_bytes(v) decodes
\* back to v, in minimal mode without being rejected (and in the lenient
\* mode as well); 0 encodes to the empty string, which is VM_FALSE, and 1 to
\* the single byte 1, which is VM_TRUE.
C14_IntRoundTrip ==
    /\ VM_FALSE = <<>>
    /\ VM_TRUE = <<1>>
    /\ (cd_fn = "int" /\ cd_status \in {"encoded", "done"}) =>
         /\ (cd_v = 0) => (cd_b = VM_FALSE)
         /\ (cd_v = 1) => (cd_b = VM_TRUE)
    /\ (cd_fn = "int" /\ cd_status = "done") =>
         /\ cd_int.err = "none"
         /\ cd_int.v = cd_v

\* a negative integer whose magnitude fills the top bit of its second byte,
\* so that a third byte carries the sign, decoded in minimal mode
C14_Witness ==
    /\ cd_fn = "int"
    /\ cd_status = "done"
    /\ cd_minimal
    /\ cd_v = -32768
    /\ cd_b = <<0, 128, 128>>
    /\ cd_int = [err |-> "none", v |-> -32768]

\* C15: with require_minimal, bool_from_script_bytes returns on exactly the
\* two strings bool_to_script_bytes produces, the empty string giving false
\* and the byte 1 giving true, and raises on every other string.
C15_BoolMinimal ==
    /\ bool_to_script_bytes(FALSE) = <<>>
    /\ bool_to_script_bytes(TRUE) = <<1>>
    /\ (cd_fn = "bool" /\ cd_status = "done" /\ cd_minimal) =>
         /\ (cd_bool.err = "none") <=>
                (cd_b \in {bool_to_script_bytes(FALSE), bool_to_script_bytes(TRUE)})
         /\ (cd_b = bool_to_script_bytes(FALSE)) => (cd_bool.v = FALSE)
         /\ (cd_b = bool_to_script_bytes(TRUE)) => (cd_bool.v = TRUE)
         /\ (cd_bool.err # "none") => (cd_bool.err = "UNKNOWN_ERROR")

\* the minimal encoding of 2 is refused
C15_Witness ==
    /\ cd_fn = "bool"
    /\ cd_status = "done"
    /\ cd_minimal
    /\ cd_b = <<2>>
    /\ cd_bool.err = "UNKNOWN_ERROR"

\* so are the minimal encoding of -1 and a padded encoding of 1
C15_OthersRefused ==
    /\ cd_fn = "bool"
    /\ cd_status = "done"
    /\ cd_minimal
    /\ cd_b \in {<<129>>, <<1, 0>>, <<0>>, <<128>>}
    /\ cd_bool.err = "UNKNOWN_ERROR"

(***************************************************************************)
(* Length-prefixed pushes.                                                 *)
(***************************************************************************)
\* width of the length field of the opcode at pc, and the bytes after it
WidthAt == IF script[pc + 1] = OP_PUSHDATA1 THEN 1
           ELSE IF script[pc + 1] = OP_PUSHDATA2 THEN 2 ELSE 4
BytesAfterOpcode == Len(script) - (pc + 1)
LittleEndianAt ==
    script[pc + 2]
    + (IF WidthAt >= 2 THEN 256 * script[pc + 3] ELSE 0)
    + (IF WidthAt = 4 THEN 65536 * script[pc + 4] + 16777216 * script[pc + 5] ELSE 0)
\* C16: a step at OP_PUSHDATA1/2/4 fails with BAD_OPCODE, changing nothing,
\* when fewer bytes than the width of the length field follow the opcode or
\* fewer bytes than the little-endian value of that field follow the field;
\* otherwise it does not fail with BAD_OPCODE, the record's data is exactly
\* the declared number of bytes starting at pc + 1 + width, and a completed
\* step leaves pc just past them.
C16_PushNotTruncated ==
    [][ (Stepping /\ script[pc + 1] \in {OP_PUSHDATA1, OP_PUSHDATA2, OP_PUSHDATA4}) =>
          IF BytesAfterOpcode < WidthAt \/ BytesAfterOpcode - WidthAt < LittleEndianAt
          THEN /\ status' = "failed"
               /\ error' = "BAD_OPCODE"
               /\ ~last'.decoded
               /\ UNCHANGED <<vm_vars>>
          ELSE /\ error' # "BAD_OPCODE"
               /\ last'.decoded =>
                    /\ last'.has_data
                    /\ Len(last'.data) = LittleEndianAt
                    /\ \A i \in 1..LittleEndianAt :
                          last'.data[i] = script[pc + 1 + WidthAt + i]
               /\ last'.advanced => pc' = pc + 1 + WidthAt + LittleEndianAt
      ]_vars

\* OP_PUSHDATA1 declaring 5 bytes with 3 bytes left: eval_script fails
C16_Witness ==
    /\ status = "failed"
    /\ error = "BAD_OPCODE"
    /\ script = <<OP_PUSHDATA1, 5, 1, 1, 1>>
    /\ last.kind = "step"
    /\ pc = 0
    /\ stack = <<>>

\* a two-byte length field whose bytes differ, pushed whole
C16_TwoByteLength ==
    /\ status = "returned"
    /\ script = <<OP_PUSHDATA2, 2, 0, 0, 2>>
    /\ stack = <<(<<0, 2>>)>>

\* a length field cut short
C16_LengthFieldCut ==
    /\ status = "failed"
    /\ error = "BAD_OPCODE"
    /\ script = <<OP_PUSHDATA4, 2, 0, 0>>

(***************************************************************************)
(* The place of the op-count check in a step.                              *)
(***************************************************************************)
\* the stacks and the conditional stack the handler of the step is given
AtDispatch ==
    [stack |-> stack, altstack |-> altstack, conditional_stack |-> conditional_stack]

\* C17: in a step over a non-push opcode that finds op_count = MAX_OP_COUNT
\* and reaches the dispatch, the handler is invoked exactly as in any other
\* step (branch active, or handler marked outside_conditional); if the
\* handler raises, the step fails with the handler's errno and pc stays; if
\* it returns or is skipped, the step fails with OP_COUNT after the
\* handler's effect and with pc moved past the opcode; op_count is
\* MAX_OP_COUNT + 1 either way.
C17_OpCountCheckedLast ==
    [][ (Stepping /\ op_count = MAX_OP_COUNT /\ Dispatched(last') /\ ~last'.has_data) =>
          LET ran == all_if_true(conditional_stack) \/ outside_conditional(last'.f)
              out == IF ran THEN Invoke(last'.f, AtDispatch) ELSE Ok(AtDispatch)
          IN  /\ last'.invoked <=> ran
              /\ status' = "failed"
              /\ op_count' = MAX_OP_COUNT + 1
              /\ stack' = out.stack
              /\ altstack' = out.altstack
              /\ conditional_stack' = out.conditional_stack
              /\ IF out.err # "none"
                 THEN error' = out.err /\ pc' = pc /\ ~last'.advanced
                 ELSE error' = "OP_COUNT" /\ pc' = pc + 1 /\ last'.advanced
      ]_vars

\* the 202nd non-push opcode is OP_DUP: it has duplicated the top item and
\* pc is past it when OP_COUNT is raised
C17_Witness ==
    /\ status = "failed"
    /\ error = "OP_COUNT"
    /\ script = <<OP_1>> \o Rep(OP_NOP, MAX_OP_COUNT) \o <<OP_DUP>>
    /\ last.invoked
    /\ stack = <<VM_TRUE, VM_TRUE>>
    /\ pc = Len(script)
    /\ op_count = MAX_OP_COUNT + 1

\* the 202nd non-push opcode raises: its errno is reported, not OP_COUNT
C17_HandlerErrorWins ==
    /\ status = "failed"
    /\ error = "INVALID_STACK_OPERATION"
    /\ script = Rep(OP_NOP, MAX_OP_COUNT) \o <<OP_DUP>>
    /\ op_count = MAX_OP_COUNT + 1
    /\ pc = MAX_OP_COUNT

\* the 202nd non-push opcode sits in an inactive branch: skipped, then OP_COUNT
C17_InactiveSkipped ==
    /\ status = "failed"
    /\ error = "OP_COUNT"
    /\ script = Inactive(Rep(OP_NOP, MAX_OP_COUNT))
    /\ ~last.invoked
    /\ last.advanced

(***************************************************************************)
(* The push of a record's data.                                            *)
(***************************************************************************)
\* C18: in a step that reaches the dispatch, the record's data is pushed iff
\* the conditional stack was all-true at the start of the step, and is then
\* the top item of the main stack the handler is invoked on; a handler
\* invoked in an inactive branch finds the main stack as the step found it;
\* and with no hook configured, a step in an inactive branch whose handler
\* is not marked outside_conditional leaves both stacks and the conditional
\* stack unchanged, moves pc past the record and adds one to op_count
\* exactly when the record carries no data.
C18_PushOnlyWhenActive ==
    [][ (Stepping /\ Dispatched(last')) =>
          LET ait == all_if_true(conditional_stack)
          IN  /\ last'.pushed <=> (ait /\ last'.has_data)
              /\ (ait /\ last'.has_data) =>
                   /\ last'.invoked
                   /\ last'.len_at_invoke = Len(stack) + 1
                   /\ last'.top_at_invoke = last'.data
                   /\ Len(stack') >= 1
              /\ (~ait /\ last'.invoked) => last'.len_at_invoke = Len(stack)
              /\ ~ait => Len(stack') <= Len(stack)
              /\ (~ait /\ ~outside_conditional(last'.f) /\ traceback_f = "none") =>
                   /\ ~last'.invoked
                   /\ UNCHANGED <<stack, altstack, conditional_stack, script,
                                  begin_code_hash, flags, traceback_f>>
                   /\ pc' = get_opcode(script, pc, FALSE).pc
                   /\ pc' > pc
                   /\ op_count' = IF last'.has_data THEN op_count ELSE op_count + 1
      ]_vars

\* a push in an inactive branch, with no hook: the stack is as before
C18_Witness ==
    /\ status = "running"
    /\ traceback_f = "none"
    /\ last.kind = "step"
    /\ ~last.all_if_true
    /\ last.has_data
    /\ Len(last.data) > 0
    /\ ~last.pushed
    /\ stack = <<>>
    /\ pc > last.start_pc

\* a push in an active branch: the data is on top when the handler runs
C18_PushedBeforeHandler ==
    /\ status = "running"
    /\ last.kind = "step"
    /\ last.all_if_true
    /\ last.pushed
    /\ last.invoked
    /\ Len(last.data) > 1
    /\ last.top_at_invoke = last.data
    /\ Top(stack) = last.data

(***************************************************************************)
(* get_opcodes.                                                            *)
(***************************************************************************)
\* the records of g lie end to end in s from offset 0
Tiles(s, g) ==
    LET r == g.recs
        n == Len(r)
        stop == IF n = 0 THEN 0 ELSE r[n].end_pc
    IN  /\ (n > 0) => (r[1].start_pc = 0)
        /\ \A i \in 1..n :
              /\ r[i].end_pc > r[i].start_pc
              /\ r[i].end_pc <= Len(s)
              /\ r[i].opcode = s[r[i].start_pc + 1]
        /\ \A i \in 2..n : r[i].start_pc = r[i - 1].end_pc
        /\ (g.err = "none") => (stop = Len(s))
        /\ (g.err # "none") => (stop < Len(s))

\* C19: whatever pc argument it is given, get_opcodes yields records that
\* start at offset 0, follow one another without gap or overlap, each
\* ending past its start, and end at len(script) when the script decodes to
\* its end; a second generator, again with any pc argument, yields the same
\* records.
C19_RecordsTile ==
    /\ (go_status \in {"once", "twice"}) => Tiles(go_script, go_first)
    /\ (go_status = "twice") => (go_second = go_first)

\* two generators given different non-zero pc arguments, over a script of
\* several records of which one carries data
C19_Witness ==
    /\ go_status = "twice"
    /\ go_pc = <<2, 1>>
    /\ go_first.err = "none"
    /\ Len(go_first.recs) >= 2
    /\ go_first.recs[1].end_pc > 1
    /\ go_second = go_first

(***************************************************************************)
(* delete_subscript applied to its own result.                             *)
(***************************************************************************)
\* the byte ranges of the instructions of s, in order
Sections(s) ==
    LET r == get_opcodes(s, FALSE, 0).recs
    IN  [i \in 1..Len(r) |-> Slice(s, r[i].start_pc, r[i].end_pc)]

IsNotSubscript(section) == section # ds_subscript

\* C20: when delete_subscript(s, x) returns, its result decodes to its end,
\* into the instructions of s whose byte range is not x, in their order, so
\* none of its instructions has x as byte range; and delete_subscript on the
\* result with the same x returns the result unchanged.
C20_Idempotent ==
    /\ (ds_status = "returned") =>
         /\ get_opcodes(ds_result, FALSE, 0).err = "none"
         /\ Sections(ds_result) = SelectSeq(Sections(ds_script), IsNotSubscript)
         /\ \A i \in 1..Len(Sections(ds_result)) : Sections(ds_result)[i] # ds_subscript
    /\ (ds_again_status # "idle") =>
         /\ ds_again_status = "returned"
         /\ ds_again_result = ds_result

\* two instructions removed by the first call, some left, and the second
\* call made
C20_Witness ==
    /\ ds_again_status = "returned"
    /\ Len(ds_subscript) >= 1
    /\ Len(ds_result) >= 1
    /\ Len(ds_script) = Len(ds_result) + 2 * Len(ds_subscript)
    /\ ds_again_result = ds_result

====
